---- MODULE Spec2Model ----
(***************************************************************************)
(* BlockModel (blocksuite/framework/store/src/model/block/block-model.ts)  *)
(* and UserModel (the second half of embed-html-spec.ts) as state          *)
(* machines.                                                               *)
(*                                                                         *)
(* Spec      one BlockModel node, its three slots, the backing Y record    *)
(*           and the observers the node registers on it.                   *)
(* SpecDoc   a document of nodes: children / childMap / isEmpty /          *)
(*           firstChild / lastChild evaluated over stored child-id lists.  *)
(* SpecUser  the user store behind UserModel, calls not overlapping.       *)
(* SpecSignIn  signIn between the calls that change the rows it reads.     *)
(* SpecHook  one run of onUserDeleted, cut at its awaits.                  *)
(* SpecRace  two create / update calls in flight, cut at their awaits.     *)
(***************************************************************************)
EXTENDS Integers, Sequences, FiniteSets, TLC

\* ---------------------------------------------------------------- bounds
\* block ids are 1..MaxId
MaxId == 2
\* longest 'sys:children' list of the single-node specification
MaxLen == 1
\* the nodes of the document specification are 1..DocIds
DocIds == 3
\* longest 'sys:children' list of a node of the document specification
DocLen == 2
\* user rows ever inserted
MaxUsers == 2

Min(a, b) == IF a < b THEN a ELSE b

Ids == 1..MaxId

RECURSIVE SeqsUpTo(_, _)
SeqsUpTo(S, n) ==
    IF n = 0 THEN {<<>>}
    ELSE LET shorter == SeqsUpTo(S, n - 1)
         IN  shorter \cup {Append(s, x) : s \in shorter, x \in S}

IdLists == SeqsUpTo(Ids, MaxLen)

VARIABLES
    \* --- BlockModel node
    _children,      \* the signal _children: string[]
    created,        \* Slot created: its callbacks, in subscription order
    deleted,        \* Slot deleted
    propsUpdated,   \* Slot propsUpdated
    \* --- backing record (yBlock) and document
    ychildren,      \* content of the Y.Array now stored under 'sys:children'
    arrayObs,       \* observers registered with Y.Array.observe: for each, whether
                    \* the array it was registered on is still the one under the key
    mapObs,         \* number of observers registered with yBlock.observe
    blocks,         \* ids that page.getBlock$ resolves
    \* --- what the last step did (read by the properties only)
    lastOp,         \* the last operation: "new", "dispose", "symbol", "created.emit" or "other"
    notif,          \* notifications the last step delivered
    createdRuns,    \* runs of the node's own created handler
    deletedRuns,    \* runs of the node's own deleted handler
    createdEmits,   \* created.emit() calls: 0, 1, or 2 for two and more
    deletedEmits,   \* deleted.emit() calls: 0, 1, or 2 for two and more
    disposed,       \* disposals called so far: subset of {"dispose", "symbol"}
    repeated,       \* the last step was a disposal directly after a disposal
    \* --- a document of nodes (SpecDoc)
    docChildren,    \* the _children signal of every node of the document
    docBlocks,      \* ids that page.getBlock$ resolves
    call,           \* the call in progress or just returned
    \* --- UserModel (SpecUser)
    users,          \* the "users" table: user id -> row, for the rows that exist
    nextUserId,     \* the id the next inserted row gets
    ret,            \* the last UserModel call: op, outcome, returned user (and
                    \* the email argument of fulfill)
    events,         \* the events the last UserModel call emitted, in order
    \* --- onUserDeleted (SpecHook)
    hook,           \* one run of the 'user.deleted' handler
    \* --- overlapping UserModel calls (SpecRace)
    procs           \* the calls in flight, each with its position

nodeVars == <<_children, created, deleted, propsUpdated>>
recordVars == <<ychildren, arrayObs, mapObs, blocks>>
histVars == <<lastOp, notif, createdRuns, deletedRuns, createdEmits, deletedEmits,
              disposed, repeated>>
blockVars == <<nodeVars, recordVars, histVars>>
docVars == <<docChildren, docBlocks, call>>
userVars == <<users, nextUserId, ret, events>>
asyncVars == <<hook, procs>>

\* ------------------------------------------------------------------ Slot
\* A slot is the sequence of its callbacks; a callback subscribed with once()
\* removes itself after it has run.
SlotOn(slot, cb) == Append(slot, [cb |-> cb, once |-> FALSE])

SlotOnce(slot, cb) == Append(slot, [cb |-> cb, once |-> TRUE])

SlotHas(slot, cb) == \E i \in 1..Len(slot) : slot[i].cb = cb

\* Slot.dispose(): every callback is dropped.
SlotDispose(slot) == <<>>

\* The Disposable returned by on()/once(): removes that one callback.
RECURSIVE DisposableDispose(_, _)
DisposableDispose(slot, cb) ==
    IF slot = <<>> THEN <<>>
    ELSE IF Head(slot).cb = cb THEN Tail(slot)
    ELSE <<Head(slot)>> \o DisposableDispose(Tail(slot), cb)

\* Slot.emit(): every callback has run; the once-callbacks are gone.
SlotAfterEmit(slot) == SelectSeq(slot, LAMBDA e : ~e.once)

\* ------------------------------------------------------------ BlockModel
\* Y.Array.toArray(): a fresh JS array with the same elements.
ToArray(yarr) == [i \in 1..Len(yarr) |-> yarr[i]]

\* null and undefined, told apart from every model and block
Null == [null |-> TRUE]

\* A model is known by its id.
ModelOf(id) == [id |-> id]

\* page.getBlock$(id): the block of that id, or nothing.
GetBlock(index, id) == IF id \in index THEN [model |-> ModelOf(id)] ELSE Null

\* _childModels, lines 43-52: forEach over the stored ids, pushing the model
\* of every id that resolves.
RECURSIVE ChildModelsFrom(_, _, _)
ChildModelsFrom(value, ids, index) ==
    IF ids = <<>> THEN value
    ELSE LET block == GetBlock(index, Head(ids))
         IN  ChildModelsFrom(IF block # Null THEN Append(value, block.model) ELSE value,
                             Tail(ids), index)

\* (the same without the `if (block)` test)
ChildModelsNoCheck(ids, index) == [i \in 1..Len(ids) |-> ModelOf(ids[i])]

ChildModels(ids, index) == ChildModelsFrom(<<>>, ids, index)

\* get children(), lines 97-99, of the node
children == ChildModels(_children, blocks)

ModelIds(models) == [i \in 1..Len(models) |-> models[i].id]

\* constructor, line 115: this._onCreated = this.created.once(...)
ConstructorCreatedOn == SlotOn(<<>>, "_onCreated")

ConstructorCreated == SlotOnce(<<>>, "_onCreated")

\* constructor, line 126: this._onDeleted = this.deleted.once(...)
ConstructorDeleted == SlotOnce(<<>>, "_onDeleted")

\* line 117-119: the Y.Array observer writes the observed array to _children
ArrayObserver(target) == ToArray(target)

\* line 120-124: the yBlock observer writes the live list only for 'sys:children'
YBlockObserver(keysChanged, cur, live) ==
    IF "sys:children" \in keysChanged THEN ToArray(live) ELSE cur

BlockInit ==
    /\ _children = <<>>
    /\ created = ConstructorCreated
    /\ deleted = ConstructorDeleted
    /\ propsUpdated = <<>>
    /\ ychildren \in IdLists
    /\ arrayObs = <<>>
    /\ mapObs = 0
    /\ blocks \in SUBSET Ids
    /\ lastOp = "new"
    /\ notif = {}
    /\ createdRuns = 0
    /\ deletedRuns = 0
    /\ createdEmits = 0
    /\ deletedEmits = 0
    /\ disposed = {}
    /\ repeated = FALSE

\* created.emit(): the node's handler (lines 116-124) runs if it is still subscribed.
EmitCreated ==
    /\ createdEmits' = Min(createdEmits + 1, 2)
    /\ IF SlotHas(created, "_onCreated")
       THEN /\ _children' = ToArray(ychildren)
            /\ arrayObs' = Append(arrayObs, TRUE)
            /\ mapObs' = mapObs + 1
            /\ createdRuns' = createdRuns + 1
            /\ notif' = {"children"}
       ELSE /\ UNCHANGED <<_children, arrayObs, mapObs, createdRuns>>
            /\ notif' = {}
    /\ created' = SlotAfterEmit(created)
    /\ lastOp' = "created.emit"
    /\ repeated' = FALSE
    /\ UNCHANGED <<deleted, propsUpdated, ychildren, blocks,
                   deletedRuns, deletedEmits, disposed>>

\* deleted.emit(): the node's handler (line 127) disposes _onCreated.
DeletedHandlerKeep(slot) == slot

DeletedHandler(slot) == DisposableDispose(slot, "_onCreated")

EmitDeleted ==
    /\ deletedEmits' = Min(deletedEmits + 1, 2)
    /\ IF SlotHas(deleted, "_onDeleted")
       THEN /\ created' = DeletedHandler(created)
            /\ deletedRuns' = deletedRuns + 1
       ELSE UNCHANGED <<created, deletedRuns>>
    /\ deleted' = SlotAfterEmit(deleted)
    /\ lastOp' = "other"
    /\ notif' = {}
    /\ repeated' = FALSE
    /\ UNCHANGED <<_children, propsUpdated, recordVars, createdRuns, createdEmits, disposed>>

Disposals == {"dispose", "symbol"}

\* dispose(), lines 131-135: the three slots are disposed.
BlockDisposeStaged(c, d, p) ==
    IF c # <<>>
    THEN [created |-> SlotDispose(c), deleted |-> d, propsUpdated |-> p]
    ELSE [created |-> c, deleted |-> SlotDispose(d), propsUpdated |-> SlotDispose(p)]

BlockDispose(c, d, p) ==
    [created |-> SlotDispose(c), deleted |-> SlotDispose(d),
     propsUpdated |-> SlotDispose(p)]

Dispose ==
    /\ LET after == BlockDispose(created, deleted, propsUpdated)
       IN  /\ created' = after.created
           /\ deleted' = after.deleted
           /\ propsUpdated' = after.propsUpdated
    /\ lastOp' = "dispose"
    /\ notif' = {}
    /\ disposed' = disposed \cup {"dispose"}
    /\ repeated' = (lastOp \in Disposals)
    /\ UNCHANGED <<_children, recordVars, createdRuns, deletedRuns, createdEmits, deletedEmits>>

\* [Symbol.dispose](), lines 148-151: only the node's two subscriptions are removed.
SymbolDisposeCreatedKeep(c) == c

SymbolDisposeCreated(c) == DisposableDispose(c, "_onCreated")

SymbolDisposeDeleted(d) == DisposableDispose(d, "_onDeleted")

SymbolDispose ==
    /\ created' = SymbolDisposeCreated(created)
    /\ deleted' = SymbolDisposeDeleted(deleted)
    /\ lastOp' = "symbol"
    /\ notif' = {}
    /\ disposed' = disposed \cup {"symbol"}
    /\ repeated' = (lastOp \in Disposals)
    /\ UNCHANGED <<_children, propsUpdated, recordVars, createdRuns, deletedRuns,
                   createdEmits, deletedEmits>>

\* A renderer subscribes to propsUpdated.  A listener that subscribes after
\* dispose() is told apart from one that subscribed before it.
ListenerTag == IF "dispose" \in disposed THEN "late" ELSE "ext"

SubscribePropsUpdated ==
    /\ ~SlotHas(propsUpdated, ListenerTag)
    /\ propsUpdated' = SlotOn(propsUpdated, ListenerTag)
    /\ lastOp' = "other"
    /\ notif' = {}
    /\ repeated' = FALSE
    /\ UNCHANGED <<_children, created, deleted, recordVars, createdRuns, deletedRuns,
                   createdEmits, deletedEmits, disposed>>

\* A prop key of the backing record changes: the yBlock observers run (the
\* changed key is not 'sys:children') and propsUpdated is emitted for the key.
YMapSetProp ==
    /\ _children' = IF mapObs > 0
                    THEN YBlockObserver({"prop:text"}, _children, ychildren)
                    ELSE _children
    /\ notif' = {IF propsUpdated[i].cb = "ext" THEN "propsUpdated" ELSE "propsUpdated.late" :
                    i \in 1..Len(propsUpdated)}
    /\ propsUpdated' = SlotAfterEmit(propsUpdated)
    /\ lastOp' = "other"
    /\ repeated' = FALSE
    /\ UNCHANGED <<created, deleted, recordVars, createdRuns, deletedRuns,
                   createdEmits, deletedEmits, disposed>>

\* The live 'sys:children' array is changed in one transaction: the observers
\* registered on that array run with it as event.target.
YArrayMutate(new) ==
    /\ new # ychildren
    /\ ychildren' = new
    /\ IF \E i \in 1..Len(arrayObs) : arrayObs[i]
       THEN /\ _children' = ArrayObserver(new)
            /\ notif' = {"children"}
       ELSE /\ UNCHANGED _children
            /\ notif' = {}
    /\ lastOp' = "other"
    /\ repeated' = FALSE
    /\ UNCHANGED <<created, deleted, propsUpdated, arrayObs, mapObs, blocks,
                   createdRuns, deletedRuns, createdEmits, deletedEmits, disposed>>

\* The key 'sys:children' is set to a new Y.Array: the yBlock observers run
\* with 'sys:children' in keysChanged; the array observers stay on the old array.
YMapSetChildren(new) ==
    /\ ychildren' = new
    /\ arrayObs' = [i \in 1..Len(arrayObs) |-> FALSE]
    /\ IF mapObs > 0
       THEN /\ _children' = YBlockObserver({"sys:children"}, _children, new)
            /\ notif' = {"children"}
       ELSE /\ UNCHANGED _children
            /\ notif' = {}
    /\ lastOp' = "other"
    /\ repeated' = FALSE
    /\ UNCHANGED <<created, deleted, propsUpdated, mapObs, blocks,
                   createdRuns, deletedRuns, createdEmits, deletedEmits, disposed>>

\* The document index gains or loses a block.
AddBlock(id) ==
    /\ id \notin blocks
    /\ blocks' = blocks \cup {id}
    /\ lastOp' = "other"
    /\ notif' = {}
    /\ repeated' = FALSE
    /\ UNCHANGED <<nodeVars, ychildren, arrayObs, mapObs, createdRuns, deletedRuns,
                   createdEmits, deletedEmits, disposed>>

DeleteBlock(id) ==
    /\ id \in blocks
    /\ blocks' = blocks \ {id}
    /\ lastOp' = "other"
    /\ notif' = {}
    /\ repeated' = FALSE
    /\ UNCHANGED <<nodeVars, ychildren, arrayObs, mapObs, createdRuns, deletedRuns,
                   createdEmits, deletedEmits, disposed>>

\* -------------------------------------------------------------- document
\* A document of nodes 1..DocIds.  lastChild() ends only on a document without
\* cycles; the nodes of such a document can be numbered so that every child
\* id is larger than its parent's, and the ids are numbered that way here.
DocNodes == 1..DocIds

Undefined == [undefined |-> TRUE]

\* childMap, lines 58-63: reduce over the stored ids, map.set(id, index).
MapSet(map, k, v) == [x \in (DOMAIN map) \cup {k} |-> IF x = k THEN v ELSE map[x]]

MapHas(map, k) == k \in DOMAIN map

EmptyMap == [x \in {} |-> 0]

RECURSIVE ChildMapFrom(_, _, _)
ChildMapFrom(map, ids, index) ==
    IF ids = <<>> THEN map
    ELSE ChildMapFrom(MapSet(map, Head(ids), index), Tail(ids), index + 1)

\* (the same, an id keeping the first index it was given)
ChildMapFirst(ids) ==
    [id \in {ids[i] : i \in 1..Len(ids)} |->
        (CHOOSE i \in 1..Len(ids) : ids[i] = id /\ \A j \in 1..(i - 1) : ids[j] # id) - 1]

ChildMap(ids) == ChildMapFrom(EmptyMap, ids, 0)

\* get children() of node n of the document
ChildrenOf(n) == ChildModels(docChildren[n], docBlocks)

\* isEmpty(), lines 73-75: this.children.length === 0
\* (the same on the stored ids instead of the resolved children)
IsEmptyStored(n) == Len(docChildren[n]) = 0

IsEmpty(n) == Len(ChildrenOf(n)) = 0

\* firstChild(), lines 137-139: this.children[0] || null
FirstChild(n) ==
    LET ch == ChildrenOf(n) IN IF Len(ch) > 0 THEN ch[1] ELSE Null

\* lastChild(), lines 141-146: one activation on node n; either it returns
\* n's model or it calls lastChild() on n's last child.
LastChildNoRecursion(n) ==
    LET ch == ChildrenOf(n)
    IN  IF Len(ch) = 0
        THEN [return |-> TRUE, value |-> ModelOf(n)]
        ELSE [return |-> TRUE, value |-> ch[Len(ch)]]

LastChildActivation(n) ==
    LET ch == ChildrenOf(n)
    IN  IF Len(ch) = 0
        THEN [return |-> TRUE, value |-> ModelOf(n)]
        ELSE [return |-> FALSE, next |-> ch[Len(ch)].id]

Idle == [op |-> "idle"]

\* Every assignment of child-id lists to the nodes n..DocIds in which the ids
\* stored in a node are larger than the node's.
RECURSIVE DocsFrom(_)
DocsFrom(n) ==
    IF n > DocIds THEN {<<>>}
    ELSE {<<ids>> \o rest : ids \in SeqsUpTo((n + 1)..DocIds, DocLen), rest \in DocsFrom(n + 1)}

DocInit ==
    /\ docChildren \in DocsFrom(1)
    /\ docBlocks \in SUBSET DocNodes
    /\ call = Idle

CallChildren(n) ==
    /\ call.op = "idle"
    /\ call' = [op |-> "children", self |-> n, ret |-> ChildrenOf(n)]
    /\ UNCHANGED <<docChildren, docBlocks>>

CallChildMap(n) ==
    /\ call.op = "idle"
    /\ call' = [op |-> "childMap", self |-> n, ret |-> ChildMap(docChildren[n])]
    /\ UNCHANGED <<docChildren, docBlocks>>

CallFirstChild(n) ==
    /\ call.op = "idle"
    /\ call' = [op |-> "firstChild", self |-> n, ret |-> FirstChild(n)]
    /\ UNCHANGED <<docChildren, docBlocks>>

CallIsEmpty(n) ==
    /\ call.op = "idle"
    /\ call' = [op |-> "isEmpty", self |-> n, ret |-> IsEmpty(n)]
    /\ UNCHANGED <<docChildren, docBlocks>>

\* lastChild() is entered on node n; depth counts the activations on the stack.
CallLastChild(n) ==
    /\ call.op = "idle"
    /\ call' = [op |-> "lastChild", self |-> n, cur |-> n, depth |-> 1, ret |-> Undefined]
    /\ UNCHANGED <<docChildren, docBlocks>>

\* The innermost activation of lastChild() runs.
LastChildStep ==
    /\ call.op = "lastChild"
    /\ call.ret = Undefined
    /\ LET act == LastChildActivation(call.cur)
       IN  IF act.return
           THEN call' = [call EXCEPT !.ret = act.value]
           ELSE call' = [call EXCEPT !.cur = act.next, !.depth = call.depth + 1]
    /\ UNCHANGED <<docChildren, docBlocks>>

\* The caller takes the result.
Return ==
    /\ call.op # "idle"
    /\ call.op = "lastChild" => call.ret # Undefined
    /\ call' = Idle
    /\ UNCHANGED <<docChildren, docBlocks>>

\* ------------------------------------------------------------- UserModel
\* Calls do not overlap: each action is one call from entry to return or throw.
Emails == {"a@x.io", "A@x.io", "b@x.io"}

\* lower("email") of the raw queries
Lower(email) == IF email = "A@x.io" THEN "a@x.io" ELSE email

\* data.email.split('@')[0]
LocalPart(email) ==
    CASE email = "a@x.io" -> "a"
      [] email = "A@x.io" -> "A"
      [] email = "b@x.io" -> "b"

SqlNull == "NULL"

Now == "date"

Passwords == {"pw"}

\* crypto.encryptPassword
EncryptPassword(password) ==
    CASE password = "pw" -> "hash(pw)"
      [] password = "wrong" -> "hash(wrong)"

\* the passwords signIn is called with
SignInPasswords == {"pw", "wrong"}

\* crypto.verifyPassword
VerifyPassword(password, hash) == hash = EncryptPassword(password)

NoUser == [id |-> 0]

\* { ...a, ...b }: the keys of b win
Spread(a, b) == [k \in (DOMAIN a) \cup (DOMAIN b) |-> IF k \in DOMAIN b THEN b[k] ELSE a[k]]

\* delete data[key]
DeleteKey(data, key) == [k \in (DOMAIN data) \ {key} |-> data[k]]

\* data[key] = value
SetKey(data, key, value) == Spread(data, [k \in {key} |-> value])

NoData == [k \in {} |-> TRUE]

\* `if (data.key)` for a string-valued key
Truthy(data, key) == key \in DOMAIN data /\ data[key] # SqlNull

\* The `data` arguments.  fulfill: every combination of registered and
\* emailVerifiedAt; update: those, or an email, or a password; create: an
\* email with or without registered and a password.
RegisteredData == {NoData} \cup {[k \in {"registered"} |-> b] : b \in BOOLEAN}

VerifiedData == {NoData} \cup {[k \in {"emailVerifiedAt"} |-> v] : v \in {SqlNull, Now}}

PasswordData == {NoData} \cup {[k \in {"password"} |-> pw] : pw \in Passwords}

EmailData == {NoData} \cup {[k \in {"email"} |-> e] : e \in Emails}

FulfillData == {Spread(r, v) : r \in RegisteredData, v \in VerifiedData}

UpdateData == EmailData \cup FulfillData \cup PasswordData

CreateData ==
    {Spread(Spread([k \in {"email"} |-> e], r), pw) :
        e \in Emails, r \in RegisteredData, pw \in PasswordData}

\* The column defaults of a new row (the schema is not under src/).
RowDefaults == [registered |-> TRUE, emailVerifiedAt |-> SqlNull, password |-> SqlNull]

\* (the same with WHERE "email" = ${email})
GetUserByEmailExact(db, email) ==
    LET rows == {db[id] : id \in {i \in DOMAIN db : db[i].email = email}}
    IN  IF rows = {} THEN {NoUser} ELSE rows

\* getUserByEmail, lines 101-109: rows[0] ?? null for the rows whose email
\* matches ignoring case; the query has no ORDER BY, so any of them may be first.
GetUserByEmail(db, email) ==
    LET rows == {db[id] : id \in {i \in DOMAIN db : Lower(db[i].email) = Lower(email)}}
    IN  IF rows = {} THEN {NoUser} ELSE rows

\* create, lines 155-168: the row db.user.create inserts
CreatedRow(id, data) ==
    LET d1 == IF Truthy(data, "password")
              THEN SetKey(data, "password", EncryptPassword(data.password))
              ELSE data
        d2 == IF ~Truthy(d1, "name") THEN SetKey(d1, "name", LocalPart(d1.email)) ELSE d1
    IN  Spread(Spread(RowDefaults, d2), [k \in {"id"} |-> id])

\* create, lines 148-174, on store db with the row getUserByEmail returned
CreateResult(db, nid, found, data) ==
    IF found # NoUser
    THEN [outcome |-> "EmailAlreadyUsed", user |-> NoUser, db |-> db, nid |-> nid,
          events |-> <<>>]
    ELSE LET row == CreatedRow(nid, data)
         IN  [outcome |-> "ok", user |-> row,
              db |-> [i \in (DOMAIN db) \cup {nid} |-> IF i = nid THEN row ELSE db[i]],
              nid |-> nid + 1,
              events |-> <<[type |-> "user.created", user |-> row]>>]

\* (the same without `user.id !== id`)
UpdateResultAnyHolder(db, id, found, data) ==
    LET d1 == IF Truthy(data, "password")
              THEN SetKey(data, "password", EncryptPassword(data.password))
              ELSE data
    IN  IF Truthy(d1, "email") /\ found # NoUser
        THEN [outcome |-> "EmailAlreadyUsed", user |-> NoUser, db |-> db, events |-> <<>>]
        ELSE IF id \notin DOMAIN db
        THEN [outcome |-> "RecordNotFound", user |-> NoUser, db |-> db, events |-> <<>>]
        ELSE LET row == Spread(db[id], d1)
             IN  [outcome |-> "ok", user |-> row,
                  db |-> [db EXCEPT ![id] = row],
                  events |-> <<[type |-> "user.updated", user |-> row]>>]

\* update, lines 176-196, with the row getUserByEmail returned for data.email
UpdateResult(db, id, found, data) ==
    LET d1 == IF Truthy(data, "password")
              THEN SetKey(data, "password", EncryptPassword(data.password))
              ELSE data
    IN  IF Truthy(d1, "email") /\ found # NoUser /\ found.id # id
        THEN [outcome |-> "EmailAlreadyUsed", user |-> NoUser, db |-> db, events |-> <<>>]
        ELSE IF id \notin DOMAIN db
        THEN [outcome |-> "RecordNotFound", user |-> NoUser, db |-> db, events |-> <<>>]
        ELSE LET row == Spread(db[id], d1)
             IN  [outcome |-> "ok", user |-> row,
                  db |-> [db EXCEPT ![id] = row],
                  events |-> <<[type |-> "user.updated", user |-> row]>>]

\* fulfill, lines 208-212: the data of the user created when none exists
FulfillCreateData(email, data) ==
    Spread([email |-> email, registered |-> TRUE, emailVerifiedAt |-> Now], data)

\* fulfill, lines 214-224: the data an existing user is updated with
FulfillUpdateData(user, data) ==
    LET d1 == IF user.registered
              THEN DeleteKey(data, "registered")
              ELSE SetKey(data, "registered", TRUE)
    IN  IF user.emailVerifiedAt # SqlNull
        THEN DeleteKey(d1, "emailVerifiedAt")
        ELSE SetKey(d1, "emailVerifiedAt", Now)

UserInit ==
    /\ users = [i \in {} |-> NoUser]
    /\ nextUserId = 1
    /\ ret = [op |-> "none", outcome |-> "ok", user |-> NoUser]
    /\ events = <<>>

Create(data) ==
    /\ nextUserId <= MaxUsers
    /\ \E found \in GetUserByEmail(users, data.email) :
          LET r == CreateResult(users, nextUserId, found, data)
          IN  /\ users' = r.db
              /\ nextUserId' = r.nid
              /\ ret' = [op |-> "create", outcome |-> r.outcome, user |-> r.user,
                         email |-> data.email]
              /\ events' = r.events

Update(id, data) ==
    /\ \E found \in (IF Truthy(data, "email") THEN GetUserByEmail(users, data.email)
                     ELSE {NoUser}) :
          LET r == UpdateResult(users, id, found, data)
          IN  /\ users' = r.db
              /\ ret' = [op |-> "update", outcome |-> r.outcome, user |-> r.user, id |-> id,
                         email |-> IF Truthy(data, "email") THEN data.email ELSE SqlNull]
              /\ events' = r.events
    /\ UNCHANGED nextUserId

\* fulfill, lines 203-232
Fulfill(email, data) ==
    \E user \in GetUserByEmail(users, email) :
          IF user = NoUser
          THEN /\ nextUserId <= MaxUsers
               /\ \E found \in GetUserByEmail(users, email) :
                  LET r == CreateResult(users, nextUserId, found,
                                        FulfillCreateData(email, data))
                  IN  /\ users' = r.db
                      /\ nextUserId' = r.nid
                      /\ ret' = [op |-> "fulfill", outcome |-> r.outcome, user |-> r.user,
                                 email |-> email]
                      /\ events' = r.events
          ELSE LET d == FulfillUpdateData(user, data)
               IN  IF DOMAIN d # {}
                   THEN LET r == UpdateResult(users, user.id, NoUser, d)
                        IN  /\ users' = r.db
                            /\ ret' = [op |-> "fulfill", outcome |-> r.outcome,
                                       user |-> r.user, email |-> email]
                            /\ events' = r.events
                            /\ UNCHANGED nextUserId
                   ELSE /\ ret' = [op |-> "fulfill", outcome |-> "ok", user |-> user,
                                   email |-> email]
                        /\ events' = <<>>
                        /\ UNCHANGED <<users, nextUserId>>

\* (the same without the verifyPassword check)
SignInResultUnverified(found, password) ==
    IF found = NoUser
    THEN [outcome |-> "WrongSignInCredentials", user |-> NoUser]
    ELSE IF found.password = SqlNull
    THEN [outcome |-> "WrongSignInMethod", user |-> NoUser]
    ELSE [outcome |-> "ok", user |-> found]

\* signIn, lines 114-131, with the row getUserByEmail returned
SignInResult(found, password) ==
    IF found = NoUser
    THEN [outcome |-> "WrongSignInCredentials", user |-> NoUser]
    ELSE IF found.password = SqlNull
    THEN [outcome |-> "WrongSignInMethod", user |-> NoUser]
    ELSE IF ~VerifyPassword(password, found.password)
    THEN [outcome |-> "WrongSignInCredentials", user |-> NoUser]
    ELSE [outcome |-> "ok", user |-> found]

\* signIn, lines 111-132
SignIn(email, password) ==
    /\ \E found \in GetUserByEmail(users, email) :
          LET r == SignInResult(found, password)
          IN  ret' = [op |-> "signIn", outcome |-> r.outcome, user |-> r.user,
                      email |-> email, password |-> password]
    /\ events' = <<>>
    /\ UNCHANGED <<users, nextUserId>>

\* delete, lines 234-250
Delete(id) ==
    /\ IF id \in DOMAIN users
       THEN /\ users' = [i \in (DOMAIN users) \ {id} |-> users[i]]
            /\ ret' = [op |-> "delete", outcome |-> "ok", user |-> users[id]]
            /\ events' = <<[type |-> "user.deleted", user |-> users[id]]>>
       ELSE /\ ret' = [op |-> "delete", outcome |-> "RecordNotFound", user |-> NoUser]
            /\ events' = <<>>
            /\ UNCHANGED users
    /\ UNCHANGED nextUserId

UserIds == 1..MaxUsers

\* --------------------------------------------------------- onUserDeleted
\* One run of the 'user.deleted' handler, lines 295-320, from the call to the
\* return, one step per await.
MetricsConfigs ==
    [enabled : BOOLEAN, customerIo : {Undefined, [token |-> ""], [token |-> "tok"]}]

DeletedPayloads ==
    [id : UserIds, email : Emails, emailVerifiedAt : {SqlNull, Now}]

\* enabled && customerIo?.token
MetricsOn(config) ==
    /\ config.enabled
    /\ config.customerIo # Undefined
    /\ config.customerIo.token # ""

\* POST /api/v1/customers/${user.email}/suppress
SuppressRequest(user) == [method |-> "POST", suppress |-> user.email]

\* DELETE /api/v1/customers/${user.id}
DeleteRequest(user) == [method |-> "DELETE", customer |-> user.id]

\* catch (e) { this.logger.error(...) }: the rejection ends the try block
\* (the same without the try / catch)
HookRethrow(h, request) == [h EXCEPT !.pc = "threw", !.failed = request]

HookCatch(h, request) == [h EXCEPT !.pc = "returned", !.failed = request, !.logged = TRUE]

HookInit ==
    hook \in [pc : {"called"}, user : DeletedPayloads, config : MetricsConfigs,
              requests : {<<>>}, failed : {"none"}, logged : {FALSE}]

\* lines 297-312, to the first await
OnUserDeleted ==
    /\ hook.pc = "called"
    /\ hook' =
          IF ~MetricsOn(hook.config)
          THEN [hook EXCEPT !.pc = "returned"]
          ELSE IF hook.user.emailVerifiedAt # SqlNull
          THEN [hook EXCEPT !.pc = "awaitSuppress",
                            !.requests = Append(@, SuppressRequest(hook.user))]
          ELSE [hook EXCEPT !.pc = "awaitDelete",
                            !.requests = Append(@, DeleteRequest(hook.user))]

\* the suppress fetch settles: fulfilled, line 312 sends the DELETE
SuppressSettles(fulfilled) ==
    /\ hook.pc = "awaitSuppress"
    /\ hook' =
          IF fulfilled
          THEN [hook EXCEPT !.pc = "awaitDelete",
                            !.requests = Append(@, DeleteRequest(hook.user))]
          ELSE HookCatch(hook, "suppress")

\* the DELETE fetch settles
DeleteSettles(fulfilled) ==
    /\ hook.pc = "awaitDelete"
    /\ hook' =
          IF fulfilled
          THEN [hook EXCEPT !.pc = "returned"]
          ELSE HookCatch(hook, "delete")

HookIdle ==
    hook = [pc |-> "returned", user |-> [id |-> 1, email |-> "a@x.io",
                                         emailVerifiedAt |-> SqlNull],
            config |-> [enabled |-> FALSE, customerIo |-> Undefined],
            requests |-> <<>>, failed |-> "none", logged |-> FALSE]

\* ------------------------------------------- overlapping create / update
\* Two calls in flight on one store.  Each call is cut at its awaits: the
\* SELECT of getUserByEmail, then the check and the INSERT / UPDATE, then the
\* emit and the return.
RaceCalls ==
    [op : {"create"}, id : {0}, data : {[k \in {"email"} |-> e] : e \in Emails}]
    \cup [op : {"update"}, id : {1}, data : {[k \in {"email"} |-> e] : e \in Emails}]

RaceStores ==
    {[i \in {} |-> NoUser]}
    \cup {[i \in {1} |-> CreatedRow(1, [k \in {"email"} |-> e])] : e \in Emails}

InFlight(c) ==
    [op |-> c.op, id |-> c.id, data |-> c.data, pc |-> "called", found |-> NoUser,
     outcome |-> "pending", pending |-> <<>>]

\* the first call is a create, the second a create or an update of a stored user
RaceInit ==
    /\ users \in RaceStores
    /\ nextUserId = Cardinality(DOMAIN users) + 1
    /\ events = <<>>
    /\ ret = [op |-> "none", outcome |-> "ok", user |-> NoUser]
    /\ procs \in {<<InFlight(c1), InFlight(c2)>> :
                    c1 \in {c \in RaceCalls : c.op = "create"},
                    c2 \in {c \in RaceCalls : c.op = "update" => 1 \in DOMAIN users}}

\* await this.getUserByEmail(data.email), lines 149 and 182
RaceLookup(p) ==
    /\ procs[p].pc = "called"
    /\ \E found \in GetUserByEmail(users, procs[p].data.email) :
          procs' = [procs EXCEPT ![p].pc = "lookedUp", ![p].found = found]
    /\ UNCHANGED <<users, nextUserId, events, ret>>

\* The users table may or may not carry a unique index on the email column
\* (the schema is not under src/): a write that repeats a stored email
\* exactly either goes through or fails in the database.
DbWriteOutcomes(db, id, email) ==
    {"ok"} \cup (IF \E i \in DOMAIN db : i # id /\ db[i].email = email
                 THEN {"UniqueConstraintFailed"}
                 ELSE {})

\* the check on the row found and await this.db.user.create / update,
\* lines 151-168 and 183-191
RaceWrite(p) ==
    /\ procs[p].pc = "lookedUp"
    /\ LET c == procs[p]
           r == IF c.op = "create"
                THEN CreateResult(users, nextUserId, c.found, c.data)
                ELSE Spread(UpdateResult(users, c.id, c.found, c.data),
                            [k \in {"nid"} |-> nextUserId])
       IN  IF r.outcome # "ok"
           THEN /\ procs' = [procs EXCEPT ![p].pc = "returned", ![p].outcome = r.outcome]
                /\ UNCHANGED <<users, nextUserId>>
           ELSE \E w \in DbWriteOutcomes(users, c.id, c.data.email) :
                   IF w = "ok"
                   THEN /\ users' = r.db
                        /\ nextUserId' = r.nid
                        /\ procs' = [procs EXCEPT ![p].pc = "written",
                                                  ![p].pending = r.events]
                   ELSE /\ procs' = [procs EXCEPT ![p].pc = "returned", ![p].outcome = w]
                        /\ UNCHANGED <<users, nextUserId>>
    /\ UNCHANGED <<events, ret>>

\* this.event.emit(...); return user, lines 170-173 and 193-195
RaceEmit(p) ==
    /\ procs[p].pc = "written"
    /\ events' = events \o procs[p].pending
    /\ procs' = [procs EXCEPT ![p].pc = "returned", ![p].outcome = "ok"]
    /\ UNCHANGED <<users, nextUserId, ret>>

RaceIdle == procs = <<>>

\* What a specification leaves alone is pinned to one state.
BlockIdle ==
    /\ BlockInit
    /\ ychildren = <<>>
    /\ blocks = {}

DocIdle ==
    /\ docChildren = [n \in DocNodes |-> <<>>]
    /\ docBlocks = {}
    /\ call = Idle

vars == <<blockVars, docVars, userVars, asyncVars>>

Init == BlockInit /\ DocIdle /\ UserInit /\ HookIdle /\ RaceIdle

Next ==
    \/ EmitCreated /\ UNCHANGED <<docVars, userVars, asyncVars>>
    \/ EmitDeleted /\ UNCHANGED <<docVars, userVars, asyncVars>>
    \/ Dispose /\ UNCHANGED <<docVars, userVars, asyncVars>>
    \/ SymbolDispose /\ UNCHANGED <<docVars, userVars, asyncVars>>
    \/ SubscribePropsUpdated /\ UNCHANGED <<docVars, userVars, asyncVars>>
    \/ YMapSetProp /\ UNCHANGED <<docVars, userVars, asyncVars>>
    \/ \E new \in IdLists : YArrayMutate(new) /\ UNCHANGED <<docVars, userVars, asyncVars>>
    \/ \E new \in IdLists : YMapSetChildren(new) /\ UNCHANGED <<docVars, userVars, asyncVars>>
    \/ \E id \in Ids : AddBlock(id) /\ UNCHANGED <<docVars, userVars, asyncVars>>
    \/ \E id \in Ids : DeleteBlock(id) /\ UNCHANGED <<docVars, userVars, asyncVars>>

Spec == Init /\ [][Next]_vars

InitDoc == DocInit /\ BlockIdle /\ UserInit /\ HookIdle /\ RaceIdle

NextDoc ==
    \/ \E n \in DocNodes : CallChildren(n) /\ UNCHANGED <<blockVars, userVars, asyncVars>>
    \/ \E n \in DocNodes : CallChildMap(n) /\ UNCHANGED <<blockVars, userVars, asyncVars>>
    \/ \E n \in DocNodes : CallFirstChild(n) /\ UNCHANGED <<blockVars, userVars, asyncVars>>
    \/ \E n \in DocNodes : CallIsEmpty(n) /\ UNCHANGED <<blockVars, userVars, asyncVars>>
    \/ \E n \in DocNodes : CallLastChild(n) /\ UNCHANGED <<blockVars, userVars, asyncVars>>
    \/ LastChildStep /\ UNCHANGED <<blockVars, userVars, asyncVars>>
    \/ Return /\ UNCHANGED <<blockVars, userVars, asyncVars>>

SpecDoc == InitDoc /\ [][NextDoc]_vars

InitUser == UserInit /\ BlockIdle /\ DocIdle /\ HookIdle /\ RaceIdle

NextUser ==
    \/ \E data \in CreateData : Create(data) /\ UNCHANGED <<blockVars, docVars, asyncVars>>
    \/ \E id \in UserIds, data \in UpdateData :
          Update(id, data) /\ UNCHANGED <<blockVars, docVars, asyncVars>>
    \/ \E email \in Emails, data \in FulfillData :
          Fulfill(email, data) /\ UNCHANGED <<blockVars, docVars, asyncVars>>
    \/ \E id \in UserIds : Delete(id) /\ UNCHANGED <<blockVars, docVars, asyncVars>>

SpecUser == InitUser /\ [][NextUser]_vars

\* signIn between the calls that make or change the rows it reads
NextSignIn ==
    \/ \E data \in CreateData : Create(data) /\ UNCHANGED <<blockVars, docVars, asyncVars>>
    \/ \E id \in UserIds, data \in PasswordData \cup EmailData :
          Update(id, data) /\ UNCHANGED <<blockVars, docVars, asyncVars>>
    \/ \E id \in UserIds : Delete(id) /\ UNCHANGED <<blockVars, docVars, asyncVars>>
    \/ \E email \in Emails, password \in SignInPasswords :
          SignIn(email, password) /\ UNCHANGED <<blockVars, docVars, asyncVars>>

SpecSignIn == InitUser /\ [][NextSignIn]_vars

InitHook == HookInit /\ BlockIdle /\ DocIdle /\ UserInit /\ RaceIdle

NextHook ==
    \/ OnUserDeleted /\ UNCHANGED <<blockVars, docVars, userVars, procs>>
    \/ \E fulfilled \in BOOLEAN :
          SuppressSettles(fulfilled) /\ UNCHANGED <<blockVars, docVars, userVars, procs>>
    \/ \E fulfilled \in BOOLEAN :
          DeleteSettles(fulfilled) /\ UNCHANGED <<blockVars, docVars, userVars, procs>>

SpecHook == InitHook /\ [][NextHook]_vars

InitRace == RaceInit /\ BlockIdle /\ DocIdle /\ HookIdle

NextRace ==
    \/ \E p \in DOMAIN procs : RaceLookup(p) /\ UNCHANGED <<blockVars, docVars, hook>>
    \/ \E p \in DOMAIN procs : RaceWrite(p) /\ UNCHANGED <<blockVars, docVars, hook>>
    \/ \E p \in DOMAIN procs : RaceEmit(p) /\ UNCHANGED <<blockVars, docVars, hook>>

SpecRace == InitRace /\ [][NextRace]_vars

\* ------------------------------------------------------------ properties
Resolvable(ids, index) == SelectSeq(ids, LAMBDA id : id \in index)

\* The node's own created handler has run: it is attached.
Attached == createdRuns >= 1

\* 'deleted' was emitted, or dispose() or [Symbol.dispose]() was called.
Detached == deletedEmits >= 1 \/ disposed # {}

\* C1: in every reachable state the ids of `children`, in order, are the ids
\* of the live 'sys:children' list that resolve through the document lookup.
C1_ChildrenProjectLiveList == ModelIds(children) = Resolvable(ychildren, blocks)

\* C2: once dispose() has been called, no step delivers a propsUpdated
\* notification to a listener subscribed before it, and no step writes the
\* node's children list.
C2_SilentAfterDispose ==
    [][("dispose" \in disposed) => (notif' \cap {"children", "propsUpdated"} = {})]_vars

\* C3: once 'deleted' has fired on an attached node, the observers that
\* 'created' registered are removed and no later step updates _children.
C3_DeletedTearsDownObservers ==
    /\ []((Attached /\ deletedRuns >= 1) => (arrayObs = <<>> /\ mapObs = 0))
    /\ [][(Attached /\ deletedRuns >= 1) => (_children' = _children)]_vars

\* C4: whatever is emitted, the node's created handler and its deleted handler
\* each run at most once, and the observers on the backing record are exactly
\* those of the one run of the created handler.
C4_HooksRunAtMostOnce ==
    /\ createdRuns <= 1
    /\ deletedRuns <= 1
    /\ Len(arrayObs) = createdRuns
    /\ mapObs = createdRuns

C4_Witness ==
    /\ createdEmits = 2
    /\ createdRuns = 1
    /\ deletedEmits = 2
    /\ deletedRuns = 1

\* C5: once the node is detached or disposed, an emission of 'created'
\* registers no observer and does not change the node's child-id list.
C5_NoAttachAfterDisposed ==
    [][(Detached /\ lastOp' = "created.emit")
          => (UNCHANGED <<_children, arrayObs, mapObs, createdRuns>> /\ notif' = {})]_vars

C5_Witness ==
    /\ lastOp = "created.emit"
    /\ createdRuns = 0
    /\ Detached
    /\ ychildren # <<>>

\* C10: a disposal that directly follows the same disposal, and a
\* [Symbol.dispose]() that directly follows dispose(), change nothing; a
\* dispose() that directly follows [Symbol.dispose]() leaves what a single
\* dispose() leaves: the three slots empty and the rest untouched.
C10_DisposeIdempotent ==
    [][(lastOp \in Disposals /\ lastOp' \in Disposals)
          => /\ UNCHANGED <<_children, recordVars>>
             /\ (lastOp = "dispose" \/ lastOp' = "symbol")
                   => UNCHANGED <<created, deleted, propsUpdated>>
             /\ (lastOp' = "dispose")
                   => (created' = <<>> /\ deleted' = <<>> /\ propsUpdated' = <<>>)]_vars

C10_Witness ==
    /\ repeated
    /\ disposed = Disposals
    /\ Attached

\* The stored ids of the node a call is on, and those of them that resolve.
StoredIds == docChildren[call.self]

ResolvedIds == Resolvable(StoredIds, docBlocks)

\* C6: `children` is the stored ids that resolve, in stored order, each as its
\* model; an id that does not resolve is left out.
C6_ChildrenSkipUnresolved ==
    call.op = "children"
        => call.ret = [i \in 1..Len(ResolvedIds) |-> ModelOf(ResolvedIds[i])]

\* stored [a, b] with b absent from the index yields a's model alone
C6_Witness ==
    /\ call.op = "children"
    /\ Len(StoredIds) = 2
    /\ StoredIds[1] \in docBlocks
    /\ StoredIds[2] \notin docBlocks
    /\ call.ret = <<ModelOf(StoredIds[1])>>

\* C7 as claimed: for the model at (0-based) position i of `children`,
\* childMap.get(model.id) = i, whatever the stored list.
C7_ChildMapIndexesChildren ==
    call.op = "childMap"
        => \A i \in 1..Len(ResolvedIds) :
              MapHas(call.ret, ResolvedIds[i]) /\ call.ret[ResolvedIds[i]] = i - 1

LastIndexOf(ids, id) ==
    CHOOSE i \in 1..Len(ids) : ids[i] = id /\ \A j \in (i + 1)..Len(ids) : ids[j] # id

NoRepeat(ids) == \A i, j \in 1..Len(ids) : ids[i] = ids[j] => i = j

\* C7 as amended: childMap holds exactly the stored ids, each with the
\* (0-based) last index at which it is stored, ids that do not resolve
\* counted; that is the position in `children` when every stored id resolves
\* and none is repeated.
C7_ChildMapIndexesStoredIds ==
    call.op = "childMap"
        => /\ DOMAIN call.ret = {StoredIds[i] : i \in 1..Len(StoredIds)}
           /\ \A i \in 1..Len(StoredIds) :
                 call.ret[StoredIds[i]] = LastIndexOf(StoredIds, StoredIds[i]) - 1
           /\ (NoRepeat(StoredIds) /\ ResolvedIds = StoredIds)
                 => \A i \in 1..Len(ResolvedIds) : call.ret[ResolvedIds[i]] = i - 1

C7_Witness ==
    /\ call.op = "childMap"
    /\ Len(StoredIds) = 2
    /\ StoredIds[1] = StoredIds[2]
    /\ StoredIds[1] \in docBlocks

\* The node reached from n by k times taking the last resolved child.
LastHop(n) ==
    LET r == Resolvable(docChildren[n], docBlocks)
    IN  IF r = <<>> THEN n ELSE r[Len(r)]

RECURSIVE Hops(_, _)
Hops(n, k) == IF k = 0 THEN n ELSE Hops(LastHop(n), k - 1)

\* C9: firstChild() is null without resolved children and the first resolved
\* child otherwise; lastChild() never nests deeper than there are nodes, and
\* returns the node at the end of the chain of last resolved children, which
\* has no resolved children (the node itself when it has none).
C9_FirstChildLastChild ==
    /\ call.op = "firstChild"
          => call.ret = (IF ResolvedIds = <<>> THEN Null ELSE ModelOf(ResolvedIds[1]))
    /\ call.op = "lastChild"
          => /\ call.depth <= DocIds
             /\ call.ret # Undefined
                   => /\ call.ret = ModelOf(Hops(call.self, DocIds))
                      /\ Resolvable(docChildren[call.ret.id], docBlocks) = <<>>
                      /\ ResolvedIds = <<>> => call.ret = ModelOf(call.self)

\* the chain A -> B -> C with C childless: A.lastChild() is C
C9_Witness ==
    /\ call.op = "lastChild"
    /\ call.self = 1
    /\ docChildren[1] = <<2>>
    /\ docChildren[2] = <<3>>
    /\ docChildren[3] = <<>>
    /\ call.ret = ModelOf(3)

\* C8: whenever fulfill(email, data) returns, a user with that email exists
\* that is registered and has emailVerifiedAt set, and it is the returned user.
C8_FulfillRegistersAndVerifies ==
    (ret.op = "fulfill" /\ ret.outcome = "ok")
        => \E id \in DOMAIN users :
              /\ Lower(users[id].email) = Lower(ret.email)
              /\ users[id].registered
              /\ users[id].emailVerifiedAt # SqlNull
              /\ ret.user = users[id]

\* C11: isEmpty() is true exactly when no stored child id resolves, also
\* when the stored child-id list is not empty.
C11_IsEmptyIffNoResolvedChild ==
    call.op = "isEmpty" => (call.ret <=> ResolvedIds = <<>>)

\* every stored id fails to resolve: isEmpty() although the list is not empty
C11_Witness ==
    /\ call.op = "isEmpty"
    /\ call.ret
    /\ StoredIds # <<>>

HookRequests == {hook.requests[i] : i \in 1..Len(hook.requests)}

\* C12 as claimed: when the handler has returned with metrics on, the DELETE
\* request for the user id was sent.
C12_DeleteAlwaysSent ==
    (hook.pc = "returned" /\ MetricsOn(hook.config))
        => DeleteRequest(hook.user) \in HookRequests

\* C12 as amended: the handler never throws; with metrics off it sends
\* nothing; with metrics on the suppress request is sent exactly when the
\* email is verified and is then the first request, and once the handler has
\* returned the DELETE request was sent exactly when the suppress request did
\* not fail, after it.
C12_DeletedHook ==
    /\ hook.pc # "threw"
    /\ ~MetricsOn(hook.config) => hook.requests = <<>>
    /\ (MetricsOn(hook.config) /\ hook.pc # "called")
          => /\ SuppressRequest(hook.user) \in HookRequests
                   <=> hook.user.emailVerifiedAt # SqlNull
             /\ hook.user.emailVerifiedAt # SqlNull
                   => hook.requests[1] = SuppressRequest(hook.user)
             /\ hook.requests \in {<<SuppressRequest(hook.user)>>,
                                   <<DeleteRequest(hook.user)>>,
                                   <<SuppressRequest(hook.user), DeleteRequest(hook.user)>>}
    /\ (MetricsOn(hook.config) /\ hook.pc = "returned")
          => (DeleteRequest(hook.user) \in HookRequests <=> hook.failed # "suppress")

\* a verified user whose suppress request failed: returned, logged, no DELETE
C12_Witness ==
    /\ hook.pc = "returned"
    /\ MetricsOn(hook.config)
    /\ hook.failed = "suppress"
    /\ hook.logged
    /\ hook.requests = <<SuppressRequest(hook.user)>>

C14_AtMostOneWins ==
    LET email == Lower(procs[1].data.email)
    IN  (/\ procs # <<>>
         /\ \A p \in DOMAIN procs : procs[p].pc = "returned"
         /\ \A p \in DOMAIN procs : Lower(procs[p].data.email) = email)
        => /\ Cardinality({p \in DOMAIN procs : procs[p].outcome = "ok"}) <= 1
           /\ \A p \in DOMAIN procs : procs[p].outcome \in {"ok", "EmailAlreadyUsed"}
           /\ Cardinality({i \in DOMAIN users : Lower(users[i].email) = email}) <= 1
           /\ Cardinality({k \in DOMAIN events :
                             /\ events[k].type = "user.created"
                             /\ Lower(events[k].user.email) = email}) <= 1

\* the ids of the users of db, other than id, that hold email ignoring case
HoldersOf(db, email, id) ==
    {i \in DOMAIN db : i # id /\ Lower(db[i].email) = Lower(email)}

\* C15: a create fails with EmailAlreadyUsed exactly when some user holds
\* the email ignoring case, an update exactly when a user with another id
\* holds it (so never for the email the user itself holds); the failed call
\* leaves the store unchanged and emits no event; a create, update or delete
\* that succeeds emits exactly one event, 'user.created', 'user.updated' or
\* 'user.deleted', whose payload is the row the store write returned.
C15_RejectedOrEmittedOnce ==
    [][/\ ret'.outcome = "EmailAlreadyUsed" => (users' = users /\ events' = <<>>)
       /\ ret'.op = "create"
            => (ret'.outcome = "EmailAlreadyUsed" <=> HoldersOf(users, ret'.email, 0) # {})
       /\ (ret'.op = "update" /\ ret'.email # SqlNull)
            => (ret'.outcome = "EmailAlreadyUsed"
                   <=> HoldersOf(users, ret'.email, ret'.id) # {})
       /\ (ret'.op = "update" /\ ret'.email = SqlNull)
            => ret'.outcome # "EmailAlreadyUsed"
       /\ (ret'.op = "create" /\ ret'.outcome = "ok")
            => /\ events' = <<[type |-> "user.created", user |-> ret'.user]>>
               /\ ret'.user.id \notin DOMAIN users
               /\ users'[ret'.user.id] = ret'.user
       /\ (ret'.op = "update" /\ ret'.outcome = "ok")
            => /\ events' = <<[type |-> "user.updated", user |-> ret'.user]>>
               /\ ret'.user.id = ret'.id
               /\ users'[ret'.id] = ret'.user
       /\ (ret'.op = "delete" /\ ret'.outcome = "ok")
            => /\ events' = <<[type |-> "user.deleted", user |-> ret'.user]>>
               /\ users[ret'.user.id] = ret'.user
               /\ ret'.user.id \notin DOMAIN users'
      ]_vars

\* an update to the email the user holds in another letter case went through
\* while a second user is stored
C15_Witness ==
    /\ ret.op = "update"
    /\ ret.outcome = "ok"
    /\ ret.email # SqlNull
    /\ ret.user.email = ret.email
    /\ ret.user.name # LocalPart(ret.email)
    /\ Cardinality(DOMAIN users) = MaxUsers
    /\ events = <<[type |-> "user.updated", user |-> ret.user]>>

\* C16: signIn returns a user exactly when a stored user holds the email
\* ignoring case, has a password, and the password given verifies against
\* it, and the user returned is that one; it fails with WrongSignInMethod
\* exactly when the holder has no password, and with WrongSignInCredentials
\* exactly when nobody holds the email or the password does not match; it
\* never changes the store and emits no event.
C16_SignIn ==
    [][ret'.op = "signIn" =>
         LET holders == HoldersOf(users, ret'.email, 0)
         IN  /\ users' = users
             /\ events' = <<>>
             /\ ret'.outcome \in {"ok", "WrongSignInMethod", "WrongSignInCredentials"}
             /\ ret'.outcome = "ok"
                  <=> \E i \in holders :
                         /\ users[i].password # SqlNull
                         /\ users[i].password = EncryptPassword(ret'.password)
                         /\ ret'.user = users[i]
             /\ ret'.outcome = "WrongSignInMethod"
                  <=> \E i \in holders : users[i].password = SqlNull
             /\ ret'.outcome = "WrongSignInCredentials"
                  <=> \/ holders = {}
                      \/ \E i \in holders :
                            /\ users[i].password # SqlNull
                            /\ users[i].password # EncryptPassword(ret'.password)
      ]_vars

\* a sign-in with the email in another letter case succeeded
C16_Witness ==
    /\ ret.op = "signIn"
    /\ ret.outcome = "ok"
    /\ ret.user.email # ret.email
    /\ ret.user.id \in DOMAIN users
    /\ users[ret.user.id].password = EncryptPassword(ret.password)

====
